---- MODULE Spec2Model ----
(***************************************************************************)
(* Model of the goodfire-sdk playground: playground.py (module-level       *)
(* credential check, save_response, track_feature_activations,             *)
(* track_logits, main) and logging_config.py (setup_logging).              *)
(*                                                                         *)
(* The remote client is an opaque collaborator: every call to it either    *)
(* raises or returns a payload that is a function of the conversation and  *)
(* of the edits active on the variant at the time of the call.             *)
(***************************************************************************)
EXTENDS Integers, Sequences, FiniteSets, TLC

VARIABLES
  apiKey,      \* GOODFIRE_API_KEY as read from the environment
  pc,          \* position of the process in playground.py
  ex,          \* example (1..4) main is currently running, 0 before
  clock,       \* wall clock when last read, in seconds since midnight
  dirs,        \* directories that exist
  fs,          \* files: path -> [content, writer]
  calls,       \* history of the calls of the file-writing functions
  trace,       \* history of remote requests and of files opened for writing
  variant,     \* goodfire.Variant: [base_model, edits], edits: feature -> weight
  client,      \* TRUE once goodfire.Client has been constructed
  logits,      \* logits1..logits4 of main, by example
  features,    \* features1..features3 of main, by example
  edits,       \* result of AutoSteer in example 2
  funny,       \* funny_features of example 3
  response,    \* response1..response3 while being accumulated
  yielded,     \* fragments the current stream has yielded so far
  budget,      \* characters the streams of this run may still yield
  sv,          \* frame of the running save_response call
  handlers,    \* root_logger.handlers
  rootLevel,   \* level of the root logger
  gfLevel,     \* level of the "goodfire" logger
  logFiles,    \* log files: path -> sequence of records
  console,     \* records written by console handlers
  setups,      \* history of the setup_logging calls
  raised       \* exception propagating out of the process, or NoExc

vars == <<apiKey, pc, ex, clock, dirs, fs, calls, trace, variant, client,
          logits, features, edits, funny, response, yielded, budget, sv,
          handlers, rootLevel, gfLevel, logFiles, console, setups, raised>>

envVars   == <<apiKey>>
mainVars  == <<pc, ex, variant, client, logits, features, edits, funny,
               response, yielded, budget, raised>>
logVars   == <<handlers, rootLevel, gfLevel, logFiles, console, setups>>
fileVars  == <<fs, calls, trace, sv>>
dirVars   == <<dirs>>

-----------------------------------------------------------------------------
(* Bounds *)

MaxClock     == 1   \* the clock reads 0..MaxClock
MaxChars     == 2   \* characters streamed in one run of main
MaxCalls     == 2   \* save_response invocations of the save_response harness
MaxSetups    == 2   \* setup_logging calls of the logging harness
MaxEmits     == 2   \* records logged by the logging harness

Clock     == 0..MaxClock
Features  == {"f1", "f2"}
ErrorMsgs == {"timeout"}

-----------------------------------------------------------------------------
(* Values *)

NoExc    == "NoExc"

\* os.getenv: None when the variable is not set
Unset      == [set |-> FALSE, value |-> ""]
EnvVal(v)  == [set |-> TRUE, value |-> v]

NoneVal  == [tag |-> "None", items |-> <<>>]
Dict(kv) == [tag |-> "dict", items |-> kv]

\* Python truth value of an Optional[dict]: None and {} are both falsy
Truthy(v) == v.tag = "dict" /\ Len(v.items) > 0

\* str(x) of an SDK object
Str(x) == <<"str", x>>

EmptyFn == [x \in {} |-> 0]

Put(f, k, v) == [x \in (DOMAIN f) \cup {k} |-> IF x = k THEN v ELSE f[x]]

-----------------------------------------------------------------------------
(* Timestamps and paths *)

Digit(d) ==
  CASE d = 0 -> "0" [] d = 1 -> "1" [] d = 2 -> "2" [] d = 3 -> "3"
    [] d = 4 -> "4" [] d = 5 -> "5" [] d = 6 -> "6" [] d = 7 -> "7"
    [] d = 8 -> "8" [] d = 9 -> "9"

Pad2(n) == Digit((n \div 10) % 10) \o Digit(n % 10)

Today == "20260101"

\* what datetime.now() can return. Within one run of main time has passed since
\* the last reading; calls made by other callers, from one process or from
\* several, before or after the wall clock was set, can read any time.
Now == IF pc = "caller" THEN Clock ELSE {t \in Clock : t >= clock}

\* datetime.now().strftime("%Y%m%d_%H%M%S")
strftime(t) ==
  Today \o "_" \o Pad2(t \div 3600) \o Pad2((t \div 60) % 60) \o Pad2(t % 60)

OutputDir == "output"
LogDir    == "logs"

Join(d, f) == d \o "/" \o f

\* the example name left out of the file name
ResponsePath_NoName(name, ts) == Join(OutputDir, ts \o ".txt")

ResponsePath(name, ts) == Join(OutputDir, name \o "_" \o ts \o ".txt")
MetadataPath(name, ts) == Join(OutputDir, name \o "_" \o ts \o "_metadata.json")
FeaturesPath(name, ts) == Join(OutputDir, name \o "_" \o ts \o "_features.json")
LogitsPath(name, ts)   == Join(OutputDir, name \o "_" \o ts \o "_logits.json")
LogPath(ts)            == Join(LogDir, "goodfire_" \o ts \o ".log")

-----------------------------------------------------------------------------
(* Files *)

\* Path.mkdir(exist_ok=True) that succeeds
Mkdir(d) == dirs' = dirs \cup {d}

\* open(path, 'w'): creates the file or truncates it
Open(files, path, id) == Put(files, path, [content |-> <<>>, writer |-> id])

\* f.write / json.dump into the file just opened, then close
WriteTo(files, path, data) == [files EXCEPT ![path].content = data]

NewCall(fn, k, name, ts, meta) ==
  [fn |-> fn, ex |-> k, name |-> name, ts |-> ts, meta |-> meta,
   status |-> "running"]

Ended(cs, id, st) == [cs EXCEPT ![id].status = st]

\* an entry of the trace: a remote request (path "") or a file opened by call id
Event(ev, id, path) ==
  [ex |-> ex, ev |-> ev, id |-> id, path |-> path, edits |-> variant.edits]

-----------------------------------------------------------------------------
(* save_response, playground.py:18-37 *)

IdleFrame ==
  [pc |-> "idle", id |-> 0, name |-> "", response |-> "", metadata |-> NoneVal,
   ts |-> "", filepath |-> "", exc |-> NoExc]

\* the call itself: arguments bound, nothing executed yet
SaveFrame(id, name, resp, meta) ==
  [pc |-> "begin", id |-> id, name |-> name, response |-> resp,
   metadata |-> meta, ts |-> "", filepath |-> "", exc |-> NoExc]

\* lines 20-25: timestamp, filename, filepath, output_dir.mkdir(exist_ok=True)
save_begin ==
  /\ sv.pc = "begin"
  /\ \E now \in Now :
     LET ts == strftime(now) IN
     \E ok \in BOOLEAN :
       /\ clock' = now
       /\ ok \/ OutputDir \notin dirs      \* mkdir can only fail when it has to create
       /\ IF ok
          THEN /\ Mkdir(OutputDir)
               /\ sv' = [sv EXCEPT !.pc = "open_response", !.ts = ts,
                                   !.filepath = ResponsePath(sv.name, ts)]
          ELSE /\ UNCHANGED dirVars
               /\ sv' = [sv EXCEPT !.pc = "raised", !.ts = ts,
                                   !.filepath = ResponsePath(sv.name, ts),
                                   !.exc = "OSError"]
       /\ calls' = [calls EXCEPT ![sv.id].ts = ts]
  /\ UNCHANGED <<fs, trace>>
  /\ UNCHANGED <<envVars, mainVars, logVars>>

\* the metadata file opened in the first with block
OpenedPath_Metadata(frame) ==
  Join(OutputDir, frame.name \o "_" \o frame.ts \o "_metadata.json")

\* the file of the first with block, line 28
OpenedPath(frame) == frame.filepath

\* line 28: open(filepath, 'w')
save_open_response ==
  /\ sv.pc = "open_response"
  /\ \E ok \in BOOLEAN :
       IF ok
       THEN /\ fs' = Open(fs, OpenedPath(sv), sv.id)
            /\ trace' = Append(trace, Event("response_file", sv.id, OpenedPath(sv)))
            /\ sv' = [sv EXCEPT !.pc = "write_response"]
       ELSE /\ sv' = [sv EXCEPT !.pc = "raised", !.exc = "OSError"]
            /\ UNCHANGED <<fs, trace>>
  /\ UNCHANGED <<calls, dirVars, clock>>
  /\ UNCHANGED <<envVars, mainVars, logVars>>

\* lines 29-32: f.write(response), close, then the test "if metadata:"
save_write_response ==
  /\ sv.pc = "write_response"
  /\ fs' = WriteTo(fs, OpenedPath(sv), sv.response)
  /\ sv' = [sv EXCEPT !.pc = IF Truthy(sv.metadata) THEN "open_metadata"
                                                     ELSE "return"]
  /\ UNCHANGED <<calls, trace, dirVars, clock>>
  /\ UNCHANGED <<envVars, mainVars, logVars>>

\* lines 33-34: metadata_file, open(metadata_file, 'w')
save_open_metadata ==
  /\ sv.pc = "open_metadata"
  /\ LET metadata_file == MetadataPath(sv.name, sv.ts) IN
     \E ok \in BOOLEAN :
       IF ok
       THEN /\ fs' = Open(fs, metadata_file, sv.id)
            /\ trace' = Append(trace, Event("metadata_file", sv.id, metadata_file))
            /\ sv' = [sv EXCEPT !.pc = "dump_metadata"]
       ELSE /\ sv' = [sv EXCEPT !.pc = "raised", !.exc = "OSError"]
            /\ UNCHANGED <<fs, trace>>
  /\ UNCHANGED <<calls, dirVars, clock>>
  /\ UNCHANGED <<envVars, mainVars, logVars>>

\* line 35: json.dump(metadata, f, indent=2), close
save_dump_metadata ==
  /\ sv.pc = "dump_metadata"
  /\ fs' = WriteTo(fs, MetadataPath(sv.name, sv.ts), <<"json", sv.metadata>>)
  /\ sv' = [sv EXCEPT !.pc = "return"]
  /\ UNCHANGED <<calls, trace, dirVars, clock>>
  /\ UNCHANGED <<envVars, mainVars, logVars>>

\* line 37: return filepath
save_return ==
  /\ sv.pc = "return"
  /\ sv' = [sv EXCEPT !.pc = "returned"]
  /\ calls' = Ended(calls, sv.id, "ok")
  /\ UNCHANGED <<fs, trace, dirVars, clock>>
  /\ UNCHANGED <<envVars, mainVars, logVars>>

save_response ==
  \/ save_begin
  \/ save_open_response
  \/ save_write_response
  \/ save_open_metadata
  \/ save_dump_metadata
  \/ save_return

-----------------------------------------------------------------------------
(* Callers of save_response other than main: any example name, any         *)
(* response, any metadata, any number of processes one after the other.    *)

SaveNames     == {"basic_chat", "basic_chat_" \o strftime(0)}
SaveResponses == {"Hi"}
SaveMetadata  == {NoneVal, Dict(<<>>), Dict(<< <<"max_tokens", 100>> >>)}

call_save_response ==
  /\ pc = "caller"
  /\ sv.pc = "idle"
  /\ Len(calls) < MaxCalls
  /\ \E name \in SaveNames, resp \in SaveResponses, meta \in SaveMetadata :
       /\ calls' = Append(calls, NewCall("save_response", 0, name, "", meta))
       /\ sv' = SaveFrame(Len(calls) + 1, name, resp, meta)
  /\ UNCHANGED <<fs, trace, dirVars, clock>>
  /\ UNCHANGED <<envVars, mainVars, logVars>>

\* the call returns or raises into its caller
caller_resume ==
  /\ pc = "caller"
  /\ sv.pc \in {"returned", "raised"}
  /\ sv' = IdleFrame
  /\ calls' = IF sv.pc = "raised" THEN Ended(calls, sv.id, "raised") ELSE calls
  /\ UNCHANGED <<fs, trace, dirVars, clock>>
  /\ UNCHANGED <<envVars, mainVars, logVars>>

\* the process dies inside save_response; a later process calls it again
Crash ==
  /\ pc = "caller"
  /\ sv.pc \notin {"idle", "returned", "raised"}
  /\ sv' = IdleFrame
  /\ calls' = Ended(calls, sv.id, "crashed")
  /\ UNCHANGED <<fs, trace, dirVars, clock>>
  /\ UNCHANGED <<envVars, mainVars, logVars>>

-----------------------------------------------------------------------------
(* logging: loggers, handlers, records *)

LevelNo(l) ==
  CASE l = "NOTSET" -> 0 [] l = "DEBUG" -> 10 [] l = "INFO" -> 20
    [] l = "WARNING" -> 30 [] l = "ERROR" -> 40

\* Logger.getEffectiveLevel: the logger's own level unless NOTSET, else its parent's
EffectiveLevel(name) ==
  IF name = "goodfire" /\ gfLevel # "NOTSET" THEN gfLevel ELSE rootLevel

\* a LogRecord; epoch is the number of setup_logging calls made before it
Record(name, level, msg) ==
  [name |-> name, levelname |-> level, message |-> msg, epoch |-> Len(setups)]

\* Handler.emit: a FileHandler appends to its file, a StreamHandler to the console
HandlerEmit(L, h, rec) ==
  IF h.kind = "file"
  THEN [L EXCEPT !.files =
          Put(@, h.target,
              IF h.target \in DOMAIN @ THEN Append(@[h.target], rec) ELSE <<rec>>)]
  ELSE [L EXCEPT !.console = Append(@, rec)]

\* Logger.callHandlers: the record propagates to every handler of the root logger
RECURSIVE CallHandlers(_, _, _)
CallHandlers(L, hs, rec) ==
  IF hs = <<>> THEN L
  ELSE CallHandlers(HandlerEmit(L, Head(hs), rec), Tail(hs), rec)

\* logger.debug / info / error on the logger called name
Log(L, name, level, msg) ==
  IF LevelNo(level) >= LevelNo(EffectiveLevel(name))
  THEN CallHandlers(L, handlers, Record(name, level, msg))
  ELSE L

Logs == [files |-> logFiles, console |-> console]

-----------------------------------------------------------------------------
(* setup_logging, logging_config.py:6-42 *)

FileHandler(path, by) == [kind |-> "file", target |-> path, by |-> by]
StreamHandler(by)     == [kind |-> "stream", target |-> "stderr", by |-> by]

\* the handlers added without clearing the old ones
NewHandlers_NoClear(old, log_file, by) ==
  old \o <<FileHandler(log_file, by), StreamHandler(by)>>

\* root_logger.handlers after lines 26-36: cleared, then the two handlers added
NewHandlers(old, log_file, by) ==
  <<FileHandler(log_file, by), StreamHandler(by)>>

\* one call at time now; outcome is "ok", or the step that raised
setup_logging(now, outcome) ==
  LET ts       == strftime(now)
      log_file == LogPath(ts)
      n        == Len(setups) + 1
  IN
  /\ clock' = now
  /\ setups' = Append(setups, [log_file |-> log_file, ok |-> outcome = "ok",
                                before |-> Len(handlers)])
  /\ CASE outcome = "mkdir" ->
            \* line 9: log_dir.mkdir raises, nothing was touched
            /\ LogDir \notin dirs
            /\ UNCHANGED <<dirVars, handlers, rootLevel, gfLevel, logFiles>>
       [] outcome = "open" ->
            \* line 29: FileHandler cannot open the file, after lines 23 and 26
            /\ Mkdir(LogDir)
            /\ rootLevel' = "INFO"
            /\ handlers' = <<>>
            /\ UNCHANGED <<gfLevel, logFiles>>
       [] outcome = "ok" ->
            /\ Mkdir(LogDir)
            /\ rootLevel' = "INFO"
            /\ handlers' = NewHandlers(handlers, log_file, n)
            /\ logFiles' = IF log_file \in DOMAIN logFiles THEN logFiles
                           ELSE Put(logFiles, log_file, <<>>)
            /\ gfLevel' = "DEBUG"
  /\ UNCHANGED console

SetupOutcomes == {"ok", "mkdir", "open"}

LastSetupOk == setups # <<>> /\ setups[Len(setups)].ok

-----------------------------------------------------------------------------
(* Callers of setup_logging other than main: any handlers installed        *)
(* before, any number of calls, records logged in between.                 *)

OldHandlers == {FileHandler(Join(LogDir, "old.log"), 0), StreamHandler(0)}

MaxOldHandlers == 2

InitHandlers ==
  UNION {[1..n -> OldHandlers] : n \in 0..MaxOldHandlers}

call_setup_logging ==
  /\ pc = "caller"
  /\ Len(setups) < MaxSetups
  /\ \E now \in Now, outcome \in SetupOutcomes : setup_logging(now, outcome)
  /\ UNCHANGED <<fileVars, envVars, mainVars>>

\* logging_config.py:46 and any later logging of the process
caller_log ==
  /\ pc = "caller"
  /\ LastSetupOk
  /\ Len(console) < MaxEmits
  /\ \E name \in {"root", "goodfire"}, level \in {"DEBUG", "INFO", "ERROR"} :
       LET L == Log(Logs, name, level, "Logging initialized") IN
       /\ logFiles' = L.files
       /\ console' = L.console
  /\ UNCHANGED <<handlers, rootLevel, gfLevel, setups>>
  /\ UNCHANGED <<clock, dirVars, fileVars, envVars, mainVars>>

-----------------------------------------------------------------------------
(* The variant and the payloads of the remote client *)

BaseModel == "meta-llama/Llama-3.3-70B-Instruct"

\* goodfire.Variant(base_model), playground.py:100
NewVariant == [base_model |-> BaseModel, edits |-> EmptyFn]

\* the reset calls missing
VariantReset_Missing(v) == v

\* variant.reset(), playground.py:140, 185, 234
VariantReset(v) == [v EXCEPT !.edits = EmptyFn]

\* variant.set(feature, weight), playground.py:195
VariantSet(v, f, w) == [v EXCEPT !.edits = Put(@, f, w)]

\* variant.set(edits), playground.py:145
VariantSetEdits(v, es) ==
  [v EXCEPT !.edits = [x \in (DOMAIN @) \cup (DOMAIN es) |->
                         IF x \in DOMAIN es THEN es[x] ELSE @[x]]]

\* 0.6, in tenths
FunnyWeight == 6

\* top_k of client.features.search
SearchTopK == 3

\* what client.features.search can return: at most top_k distinct features
SearchResults ==
  {q \in {<<>>, <<"f2">>, <<"f1", "f2">>, <<"f2", "f1">>} : Len(q) <= SearchTopK}

\* what client.features.AutoSteer can return: a set of edits
SteerResults == {[x \in {f} |-> 4] : f \in {"f1"}}

\* max_completion_tokens of the completion of example k
MaxTokens(k) == IF k = 2 THEN 120 ELSE 100

\* one example name for every save_response call
SaveName_Same(k) == "basic_chat"

\* example_name arguments of the calls in main
LogitsName(k) ==
  CASE k = 1 -> "basic_chat_logits" [] k = 2 -> "auto_steer_logits"
    [] k = 3 -> "manual_feature_logits" [] k = 4 -> "feature_inspection_logits"

FeaturesName(k) ==
  CASE k = 1 -> "basic_chat_features" [] k = 2 -> "auto_steer_features"
    [] k = 3 -> "manual_feature_features"

SaveName(k) ==
  CASE k = 1 -> "basic_chat" [] k = 2 -> "auto_steer_humor"
    [] k = 3 -> "manual_feature_edit" [] k = 4 -> "feature_inspection"

\* logits_response.logits (top_k=10) for the conversation of example k and the
\* edits active on the variant
LogitsOf(k, es) == <<"logits", 10, k, es>>

\* context.top(k=n) for the conversation of example k and the edits active on
\* the variant
TopOf(n, k, es) == <<"top", n, k, es>>

\* [str(f) for f, _ in features]
FeatureStrs(top) == <<"strs", top>>

\* the metadata argument of the save_response call of example k
Metadata(k) ==
  CASE k = 1 -> Dict(<< <<"model", variant.base_model>>, <<"max_tokens", MaxTokens(1)>>,
                        <<"top_features", FeatureStrs(features[1])>>,
                        <<"top_logits", logits[1]>> >>)
    [] k = 2 -> Dict(<< <<"model", variant.base_model>>, <<"max_tokens", MaxTokens(2)>>,
                        <<"edits", Str(edits)>>,
                        <<"top_features", FeatureStrs(features[2])>>,
                        <<"top_logits", logits[2]>> >>)
    [] k = 3 -> Dict(<< <<"model", variant.base_model>>, <<"max_tokens", MaxTokens(3)>>,
                        <<"features", Str(funny[1])>>, <<"weight", FunnyWeight>>,
                        <<"top_features", FeatureStrs(features[3])>>,
                        <<"top_logits", logits[3]>> >>)
    [] k = 4 -> Dict(<< <<"model", variant.base_model>>,
                        <<"context", "joke conversation">>,
                        <<"top_logits", logits[4]>> >>)

-----------------------------------------------------------------------------
(* playground.py, module level: lines 10-16 *)

\* "GOODFIRE_API_KEY is None"
KeyMissing_NoneOnly(k) == ~k.set

\* "not GOODFIRE_API_KEY"
KeyMissing(k) == ~k.set \/ k.value = ""

load_env ==
  /\ pc = "import"
  /\ IF KeyMissing(apiKey)
     THEN pc' = "config_abort" /\ raised' = "Please set GOODFIRE_API_KEY in your .env file"
     ELSE pc' = "main" /\ raised' = raised
  /\ UNCHANGED <<ex, variant, client, logits, features, edits, funny,
                 response, yielded, budget>>
  /\ UNCHANGED <<clock, dirVars, fileVars, envVars, logVars>>

-----------------------------------------------------------------------------
(* main, playground.py:82-269 *)

ErrorMessage(e) == "Error in playground: " \o e

\* an except clause that logs a warning instead of an error
Raise_Warning(L, msg) ==
  LET L1 == Log(L, "goodfire", "WARNING", ErrorMessage(msg)) IN
  /\ logFiles' = L1.files
  /\ console' = L1.console
  /\ raised' = msg
  /\ pc' = "failed"

\* an exception raised inside the try block, after the records in L were
\* logged: the except clause, lines 267-269, logs it and raises it again
Raise(L, msg) ==
  LET L1 == Log(L, "goodfire", "ERROR", ErrorMessage(msg)) IN
  /\ logFiles' = L1.files
  /\ console' = L1.console
  /\ raised' = msg
  /\ pc' = "failed"

\* line 84: log_file = setup_logging(), outside the try block
main_setup_logging ==
  /\ pc = "main"
  /\ \E now \in Now, outcome \in SetupOutcomes :
       /\ setup_logging(now, outcome)
       /\ IF outcome = "ok"
          THEN pc' = "main_output_dir" /\ raised' = raised
          ELSE pc' = "uncaught" /\ raised' = "OSError"
  /\ UNCHANGED <<ex, variant, client, logits, features, edits, funny,
                 response, yielded, budget>>
  /\ UNCHANGED <<fileVars, envVars>>

\* lines 85-91: logger, info, output_dir.mkdir(exist_ok=True), info
main_output_dir ==
  /\ pc = "main_output_dir"
  /\ LET L1 == Log(Logs, "goodfire", "INFO", "Starting Goodfire SDK playground") IN
     \E ok \in BOOLEAN :
       /\ ok \/ OutputDir \notin dirs
       /\ IF ok
          THEN LET L2 == Log(L1, "goodfire", "INFO", "Output directory: output") IN
               /\ Mkdir(OutputDir)
               /\ logFiles' = L2.files /\ console' = L2.console
               /\ pc' = "init" /\ raised' = raised
          ELSE /\ UNCHANGED dirVars
               /\ logFiles' = L1.files /\ console' = L1.console
               /\ pc' = "uncaught" /\ raised' = "OSError"
  /\ UNCHANGED <<ex, variant, client, logits, features, edits, funny,
                 response, yielded, budget>>
  /\ UNCHANGED <<handlers, rootLevel, gfLevel, setups>>
  /\ UNCHANGED <<clock, fileVars, envVars>>

\* lines 95-105: client, variant, start of example 1
main_init ==
  /\ pc = "init"
  /\ LET L1 == Log(Logs, "goodfire", "INFO", "Initializing Goodfire client") IN
     \/ \E msg \in ErrorMsgs :
          /\ Raise(L1, msg)
          /\ UNCHANGED <<ex, variant, client>>
     \/ LET L2 == Log(L1, "goodfire", "INFO", "Creating model variant")
            L3 == Log(L2, "goodfire", "INFO", "Running Example 1: Basic Chat Completion")
        IN
        /\ client' = TRUE
        /\ variant' = NewVariant
        /\ ex' = 1
        /\ pc' = "logits" /\ raised' = raised
        /\ logFiles' = L3.files /\ console' = L3.console
  /\ UNCHANGED <<logits, features, edits, funny, response, yielded, budget>>
  /\ UNCHANGED <<handlers, rootLevel, gfLevel, setups>>
  /\ UNCHANGED <<clock, dirVars, fileVars, envVars>>

\* the completion skipped
AfterLogits_SkipStream(k) == IF k = 4 THEN "inspect" ELSE "features"

\* what main does after track_logits returned: the streamed completion in
\* examples 1-3 (lines 110, 154, 202), the inspection in example 4 (line 243)
AfterLogits(k) == IF k = 4 THEN "inspect" ELSE "stream_open"

\* track_logits, lines 64-80, called at lines 108, 152, 200, 241
track_logits(k) ==
  /\ pc = "logits" /\ ex = k
  /\ \E now \in Now :
     LET ts          == strftime(now)
         id          == Len(calls) + 1
         logits_file == LogitsPath(LogitsName(k), ts)
         payload     == LogitsOf(k, variant.edits)
         call        == NewCall("track_logits", k, LogitsName(k), ts, NoneVal)
         request     == Event("logits_request", id, "")
     IN
     /\ clock' = now
     /\ \/ \E msg \in ErrorMsgs :            \* client.chat.logits raises
             /\ Raise(Logs, msg)
             /\ calls' = Append(calls, [call EXCEPT !.status = "raised"])
             /\ trace' = Append(trace, request)
             /\ UNCHANGED <<fs, logits>>
        \/ /\ Raise(Logs, "OSError")         \* open(logits_file, 'w') raises
           /\ calls' = Append(calls, [call EXCEPT !.status = "raised"])
           /\ trace' = Append(trace, request)
           /\ UNCHANGED <<fs, logits>>
        \/ /\ fs' = WriteTo(Open(fs, logits_file, id), logits_file, <<"json", payload>>)
           /\ calls' = Append(calls, [call EXCEPT !.status = "ok"])
           /\ trace' = trace \o <<request, Event("logits_file", id, logits_file)>>
           /\ logits' = Put(logits, k, payload)
           /\ pc' = AfterLogits(k)
           /\ UNCHANGED <<raised, logFiles, console>>
  /\ UNCHANGED <<ex, variant, client, features, edits, funny, response, yielded,
                 budget>>
  /\ UNCHANGED <<handlers, rootLevel, gfLevel, setups>>
  /\ UNCHANGED <<dirVars, sv, envVars>>

\* lines 110-116: response = "", client.chat.completions.create(..., stream=True)
stream_open(k) ==
  /\ pc = "stream_open" /\ ex = k
  /\ response' = ""
  /\ yielded' = <<>>
  /\ trace' = Append(trace, Event("completion_request", 0, ""))
  /\ \/ \E msg \in ErrorMsgs : Raise(Logs, msg)
     \/ pc' = "streaming" /\ UNCHANGED <<raised, logFiles, console>>
  /\ UNCHANGED <<ex, variant, client, logits, features, edits, funny, budget>>
  /\ UNCHANGED <<handlers, rootLevel, gfLevel, setups>>
  /\ UNCHANGED <<clock, dirVars, fs, calls, sv, envVars>>

\* the fragment put in front
Accumulate_Prepend(resp, content) == content \o resp

RECURSIVE Concat(_)
Concat(q) == IF q = <<>> THEN "" ELSE Head(q) \o Concat(Tail(q))

Letters == <<"a", "b", "c", "d">>

\* the text the remote model generates, character i
Letter(i) == Letters[((i - 1) % Len(Letters)) + 1]

\* token.choices[0].delta.content: the next n characters of that text, after
\* the sent characters the stream has yielded already
Content(sent, n) == Concat([x \in 1..n |-> Letter(sent + x)])

\* the body of the for loop, lines 117-119
Accumulate(resp, content) == resp \o content

\* one iteration of the for loop: a token arrives, the stream fails, or it ends
stream_next(k) ==
  /\ pc = "streaming" /\ ex = k
  /\ \/ /\ \E n \in 1..budget :
             LET content == Content(Len(Concat(yielded)), n) IN
             /\ response' = Accumulate(response, content)
             /\ yielded' = Append(yielded, content)
             /\ budget' = budget - n
        /\ UNCHANGED <<pc, raised, trace, logFiles, console>>
     \/ /\ \E msg \in ErrorMsgs : Raise(Logs, msg)
        /\ UNCHANGED <<response, yielded, budget, trace>>
     \/ /\ pc' = "features"
        /\ trace' = Append(trace, Event("completion_end", 0, ""))
        /\ UNCHANGED <<response, yielded, budget, raised, logFiles, console>>
  /\ UNCHANGED <<ex, variant, client, logits, features, edits, funny>>
  /\ UNCHANGED <<handlers, rootLevel, gfLevel, setups>>
  /\ UNCHANGED <<clock, dirVars, fs, calls, sv, envVars>>

\* track_feature_activations, lines 39-62, called at lines 122, 166, 214
track_feature_activations(k) ==
  /\ pc = "features" /\ ex = k
  /\ \E now \in Now :
     LET ts           == strftime(now)
         id           == Len(calls) + 1
         feature_file == FeaturesPath(FeaturesName(k), ts)
         top_features == TopOf(10, k, variant.edits)
         call         == NewCall("track_feature_activations", k, FeaturesName(k),
                                 ts, NoneVal)
         request      == Event("features_request", id, "")
     IN
     /\ clock' = now
     /\ \/ \E msg \in ErrorMsgs :            \* client.features.inspect raises
             /\ Raise(Logs, msg)
             /\ calls' = Append(calls, [call EXCEPT !.status = "raised"])
             /\ trace' = Append(trace, request)
             /\ UNCHANGED <<fs, features>>
        \/ /\ Raise(Logs, "OSError")         \* open(feature_file, 'w') raises
           /\ calls' = Append(calls, [call EXCEPT !.status = "raised"])
           /\ trace' = Append(trace, request)
           /\ UNCHANGED <<fs, features>>
        \/ /\ fs' = WriteTo(Open(fs, feature_file, id), feature_file,
                            <<"json", [top_features |-> top_features]>>)
           /\ calls' = Append(calls, [call EXCEPT !.status = "ok"])
           /\ trace' = trace \o <<request, Event("features_file", id, feature_file)>>
           /\ features' = Put(features, k, top_features)
           /\ pc' = "save"
           /\ UNCHANGED <<raised, logFiles, console>>
  /\ UNCHANGED <<ex, variant, client, logits, edits, funny, response, yielded,
                 budget>>
  /\ UNCHANGED <<handlers, rootLevel, gfLevel, setups>>
  /\ UNCHANGED <<dirVars, sv, envVars>>

\* the response argument of the save_response call of example k
SavedResponse(k) == IF k = 4 THEN Str(features[4]) ELSE response

\* the save_response calls at lines 125, 169, 217, 254
main_save(k) ==
  /\ pc = "save" /\ ex = k
  /\ calls' = Append(calls, NewCall("save_response", k, SaveName(k), "", Metadata(k)))
  /\ sv' = SaveFrame(Len(calls) + 1, SaveName(k), SavedResponse(k), Metadata(k))
  /\ pc' = "saving"
  /\ UNCHANGED <<ex, variant, client, logits, features, edits, funny, response,
                 yielded, budget, raised>>
  /\ UNCHANGED <<clock, dirVars, fs, trace, envVars, logVars>>

\* save_response raised: the exception reaches the except clause of main
main_save_raised ==
  /\ pc = "saving"
  /\ sv.pc = "raised"
  /\ Raise(Logs, sv.exc)
  /\ sv' = IdleFrame
  /\ calls' = Ended(calls, sv.id, "raised")
  /\ UNCHANGED <<ex, variant, client, logits, features, edits, funny, response,
                 yielded, budget>>
  /\ UNCHANGED <<handlers, rootLevel, gfLevel, setups>>
  /\ UNCHANGED <<clock, dirVars, fs, trace, envVars>>

\* lines 138-149: example 2 resets the variant and applies the AutoSteer edits
example2_steer ==
  /\ pc = "saving" /\ ex = 1
  /\ sv.pc = "returned"
  /\ sv' = IdleFrame
  /\ ex' = 2
  /\ LET L1 == Log(Logs, "goodfire", "INFO", "Running Example 2: Auto Steering for Humor")
         v1 == VariantReset(variant)
     IN
     /\ trace' = Append(trace, [ex |-> 2, ev |-> "autosteer_request", id |-> 0,
                                path |-> "", edits |-> v1.edits])
     /\ \/ \E msg \in ErrorMsgs :
             /\ Raise(L1, msg)
             /\ variant' = v1
             /\ UNCHANGED edits
        \/ \E es \in SteerResults :
             LET L2 == Log(L1, "goodfire", "DEBUG", <<"Applied edits: ", Str(es)>>) IN
             /\ edits' = es
             /\ variant' = VariantSetEdits(v1, es)
             /\ logFiles' = L2.files /\ console' = L2.console
             /\ pc' = "logits" /\ raised' = raised
  /\ UNCHANGED <<client, logits, features, funny, response, yielded, budget>>
  /\ UNCHANGED <<handlers, rootLevel, gfLevel, setups>>
  /\ UNCHANGED <<clock, dirVars, fs, calls, envVars>>

\* lines 183-197: example 3 resets the variant, searches, sets one feature
example3_search ==
  /\ pc = "saving" /\ ex = 2
  /\ sv.pc = "returned"
  /\ sv' = IdleFrame
  /\ ex' = 3
  /\ LET L1 == Log(Logs, "goodfire", "INFO",
                   "Running Example 3: Feature Search and Manual Editing")
         v1 == VariantReset(variant)
     IN
     /\ trace' = Append(trace, [ex |-> 3, ev |-> "search_request", id |-> 0,
                                path |-> "", edits |-> v1.edits])
     /\ \/ \E msg \in ErrorMsgs :
             /\ Raise(L1, msg)
             /\ variant' = v1
             /\ UNCHANGED funny
        \/ \E found \in SearchResults :
             LET L2 == Log(L1, "goodfire", "DEBUG", <<"Found features: ", Str(found)>>) IN
             /\ funny' = found
             /\ IF found = <<>>
                THEN /\ Raise(L2, "list index out of range")     \* funny_features[0]
                     /\ variant' = v1
                ELSE /\ variant' = VariantSet(v1, found[1], FunnyWeight)
                     /\ logFiles' = L2.files /\ console' = L2.console
                     /\ pc' = "logits" /\ raised' = raised
  /\ UNCHANGED <<client, logits, features, edits, response, yielded, budget>>
  /\ UNCHANGED <<handlers, rootLevel, gfLevel, setups>>
  /\ UNCHANGED <<clock, dirVars, fs, calls, envVars>>

\* lines 232-238: example 4 resets the variant
example4_reset ==
  /\ pc = "saving" /\ ex = 3
  /\ sv.pc = "returned"
  /\ sv' = IdleFrame
  /\ ex' = 4
  /\ LET L1 == Log(Logs, "goodfire", "INFO", "Running Example 4: Feature Inspection") IN
     logFiles' = L1.files /\ console' = L1.console
  /\ variant' = VariantReset(variant)
  /\ pc' = "logits"
  /\ UNCHANGED <<client, logits, features, edits, funny, response, yielded,
                 budget, raised>>
  /\ UNCHANGED <<handlers, rootLevel, gfLevel, setups>>
  /\ UNCHANGED <<clock, dirVars, fs, calls, trace, envVars>>

\* lines 243-251: client.features.inspect, context.top(k=5)
example4_inspect ==
  /\ pc = "inspect" /\ ex = 4
  /\ trace' = Append(trace, Event("inspect_request", 0, ""))
  /\ \/ /\ \E msg \in ErrorMsgs : Raise(Logs, msg)
        /\ UNCHANGED features
     \/ LET top_features == TopOf(5, 4, variant.edits)
            L1 == Log(Logs, "goodfire", "DEBUG",
                      <<"Top activating features: ", Str(top_features)>>)
        IN
        /\ features' = Put(features, 4, top_features)
        /\ logFiles' = L1.files /\ console' = L1.console
        /\ pc' = "save" /\ raised' = raised
  /\ UNCHANGED <<ex, variant, client, logits, edits, funny, response, yielded,
                 budget>>
  /\ UNCHANGED <<handlers, rootLevel, gfLevel, setups>>
  /\ UNCHANGED <<clock, dirVars, fs, calls, sv, envVars>>

\* line 265: the last save_response returned
main_done ==
  /\ pc = "saving" /\ ex = 4
  /\ sv.pc = "returned"
  /\ sv' = IdleFrame
  /\ LET L1 == Log(Logs, "goodfire", "INFO", "Playground completed successfully") IN
     logFiles' = L1.files /\ console' = L1.console
  /\ pc' = "done"
  /\ UNCHANGED <<ex, variant, client, logits, features, edits, funny, response,
                 yielded, budget, raised>>
  /\ UNCHANGED <<handlers, rootLevel, gfLevel, setups>>
  /\ UNCHANGED <<clock, dirVars, fs, calls, trace, envVars>>

InitCommon ==
  /\ clock \in Clock
  /\ fs = EmptyFn
  /\ calls = <<>>
  /\ trace = <<>>
  /\ variant = [base_model |-> "", edits |-> EmptyFn]
  /\ client = FALSE
  /\ logits = EmptyFn
  /\ features = EmptyFn
  /\ edits = EmptyFn
  /\ funny = <<>>
  /\ response = ""
  /\ yielded = <<>>
  /\ budget = MaxChars
  /\ sv = IdleFrame
  /\ logFiles = EmptyFn
  /\ console = <<>>
  /\ setups = <<>>
  /\ raised = NoExc
  /\ ex = 0

InitSave ==
  /\ InitCommon
  /\ apiKey = EnvVal("key")
  /\ pc = "caller"
  /\ dirs \in {{}, {OutputDir}}
  /\ handlers = <<>>
  /\ rootLevel = "WARNING"
  /\ gfLevel = "NOTSET"

NextSave ==
  \/ call_save_response
  \/ save_response
  \/ caller_resume
  \/ Crash

SpecSave == InitSave /\ [][NextSave]_vars

InitLog ==
  /\ InitCommon
  /\ apiKey = EnvVal("key")
  /\ pc = "caller"
  /\ dirs \in {{}, {LogDir}}
  /\ handlers \in InitHandlers
  /\ rootLevel = "WARNING"
  /\ gfLevel = "NOTSET"

NextLog ==
  \/ call_setup_logging
  \/ caller_log

SpecLog == InitLog /\ [][NextLog]_vars

Init ==
  /\ InitCommon
  /\ apiKey \in {Unset, EnvVal(""), EnvVal("key")}
  /\ pc = "import"
  /\ dirs = {}
  /\ handlers = <<>>
  /\ rootLevel = "WARNING"
  /\ gfLevel = "NOTSET"

Next ==
  \/ load_env
  \/ main_setup_logging
  \/ main_output_dir
  \/ main_init
  \/ \E k \in 1..4 : track_logits(k)
  \/ \E k \in 1..3 : stream_open(k)
  \/ \E k \in 1..3 : stream_next(k)
  \/ \E k \in 1..3 : track_feature_activations(k)
  \/ \E k \in 1..4 : main_save(k)
  \/ save_response
  \/ main_save_raised
  \/ example2_steer
  \/ example3_search
  \/ example4_reset
  \/ example4_inspect
  \/ main_done

Spec == Init /\ [][Next]_vars

-----------------------------------------------------------------------------
(* Properties *)

SaveCalls == {i \in DOMAIN calls : calls[i].fn = "save_response"}

\* files of one kind the call id opened for writing
Opened(id, ev) == {n \in DOMAIN trace : trace[n].id = id /\ trace[n].ev = ev}

\* C1, as stated: no invocation of save_response ever writes a path an earlier
\* invocation has written; no file is overwritten or deleted.
C1_NeverOverwrites ==
  [][\A p \in DOMAIN fs : p \in DOMAIN fs' /\ fs'[p].writer = fs[p].writer]_vars

\* C1, amended: no file is ever deleted, and an invocation of save_response
\* writes over a file of an earlier invocation only when both were given the
\* same example name and read the same timestamp (the same clock second).
C1_OverwriteOnlySameNameSameSecond ==
  [][\A p \in DOMAIN fs :
       /\ p \in DOMAIN fs'
       /\ fs'[p].writer # fs[p].writer =>
            /\ calls'[fs'[p].writer].name = calls[fs[p].writer].name
            /\ calls'[fs'[p].writer].ts = calls[fs[p].writer].ts]_vars

\* two invocations that differ in name or timestamp have both written their
\* response and metadata files, and each still owns its files
C1_Witness ==
  \E i, j \in SaveCalls :
    /\ i < j
    /\ calls[i].status = "ok" /\ calls[j].status = "ok"
    /\ <<calls[i].name, calls[i].ts>> # <<calls[j].name, calls[j].ts>>
    /\ Truthy(calls[i].meta) /\ Truthy(calls[j].meta)
    /\ fs[ResponsePath(calls[i].name, calls[i].ts)].writer = i
    /\ fs[MetadataPath(calls[i].name, calls[i].ts)].writer = i
    /\ fs[ResponsePath(calls[j].name, calls[j].ts)].writer = j
    /\ fs[MetadataPath(calls[j].name, calls[j].ts)].writer = j

\* C2, as stated: a save_response call that returns has written exactly one
\* metadata file if a metadata object was supplied (an empty one included) and
\* none if the argument was omitted.
C2_MetadataFileIffSupplied ==
  \A i \in SaveCalls :
    calls[i].status = "ok" =>
      Cardinality(Opened(i, "metadata_file")) =
        IF calls[i].meta.tag = "dict" THEN 1 ELSE 0

\* the metadata path and the response path of every example record
RecordPaths ==
  {<<MetadataPath(name, strftime(t)), ResponsePath(name, strftime(t))>> :
     name \in SaveNames, t \in Clock}

\* C3: a metadata file <example>_<timestamp>_metadata.json exists only if the
\* response file <example>_<timestamp>.txt exists, in every state of the output
\* directory, failed and crashed save_response calls included.
C3_NoOrphanMetadata ==
  \A pair \in RecordPaths : pair[1] \in DOMAIN fs => pair[2] \in DOMAIN fs

\* a metadata file is on disk, and so is a response file that a crashed call
\* left without metadata
C3_Witness ==
  /\ \E name \in SaveNames, t \in Clock :
       MetadataPath(name, strftime(t)) \in DOMAIN fs
  /\ \E i \in SaveCalls :
       /\ calls[i].status = "crashed"
       /\ Truthy(calls[i].meta)
       /\ ResponsePath(calls[i].name, calls[i].ts) \in DOMAIN fs
       /\ MetadataPath(calls[i].name, calls[i].ts) \notin DOMAIN fs

Errors(q) == {n \in DOMAIN q : q[n].levelname = "ERROR"}

OneErrorWith(q, msg) ==
  /\ Cardinality(Errors(q)) = 1
  /\ \A n \in Errors(q) : q[n].message = ErrorMessage(msg)

\* C4: once an exception is raised inside example k, main runs its except
\* clause and nothing else: the process has terminated, the exception has propagated,
\* the log file and the console each hold exactly one ERROR record, which
\* carries the exception message, and no request or artifact of an example after
\* k exists.
C4_ErrorLoggedOnceAndPropagated ==
  /\ raised # NoExc => pc \in {"failed", "uncaught", "config_abort"}
  /\ pc \notin {"failed", "import", "main", "config_abort", "uncaught"} =>
       Errors(console) = {}
  /\ pc = "failed" =>
       /\ raised # NoExc
       /\ OneErrorWith(console, raised)
       /\ OneErrorWith(logFiles[setups[1].log_file], raised)
       /\ \A n \in DOMAIN trace : trace[n].ex <= ex
       /\ \A i \in DOMAIN calls : calls[i].ex <= ex

\* the client raised in example 2, after example 1 had produced its artifacts
C4_Witness ==
  /\ pc = "failed" /\ ex = 2
  /\ raised \in ErrorMsgs
  /\ \E n \in DOMAIN trace : trace[n].ex = 1 /\ trace[n].ev = "metadata_file"
  /\ \E n \in DOMAIN trace : trace[n].ex = 2 /\ trace[n].ev = "logits_file"

ModelRequests ==
  {"logits_request", "completion_request", "features_request", "inspect_request"}

\* the edits each example is meant to run with
ExpectedEdits(k) ==
  CASE k = 1 -> EmptyFn
    [] k = 2 -> edits
    [] k = 3 -> [x \in {funny[1]} |-> FunnyWeight]
    [] k = 4 -> EmptyFn

\* C5: every logits request, completion request and feature inspection of an
\* example is issued with exactly the edits set since the reset of that example:
\* none in example 1, the AutoSteer edits in example 2, funny_features[0] at 0.6
\* in example 3, none in example 4.
C5_EditsOfOwnExampleOnly ==
  \A n \in DOMAIN trace :
    trace[n].ev \in ModelRequests => trace[n].edits = ExpectedEdits(trace[n].ex)

\* all four examples ran; examples 2 and 3 steered different features
C5_Witness ==
  /\ pc = "done"
  /\ DOMAIN edits # {funny[1]}
  /\ \E n \in DOMAIN trace :
       trace[n].ex = 3 /\ trace[n].ev = "features_request" /\ trace[n].edits # EmptyFn
  /\ \E n \in DOMAIN trace :
       trace[n].ex = 4 /\ trace[n].ev = "inspect_request"

Has(k, ev) == \E n \in DOMAIN trace : trace[n].ex = k /\ trace[n].ev = ev

\* the order of the side effects of an example that streams a completion
StreamingOrder ==
  <<"logits_request", "logits_file", "completion_request", "completion_end",
    "features_request", "features_file", "response_file", "metadata_file">>

\* the order of the side effects of the inspection example
InspectionOrder ==
  <<"logits_request", "logits_file", "inspect_request", "response_file",
    "metadata_file">>

SideEffects == {"logits_request", "logits_file", "completion_request",
                "completion_end", "features_request", "features_file",
                "inspect_request", "response_file", "metadata_file"}

\* the side effects of example k so far, in the order they happened
Effects(k) ==
  LET OfExample(e) == e.ex = k /\ e.ev \in SideEffects
  IN  SelectSeq(trace, OfExample)

Finished(k) == ex > k \/ pc = "done"

\* the side effects of example k so far are the first ones of order, and all
\* of order once the example is over
Follows(k, order) ==
  LET done == Effects(k) IN
  /\ Len(done) <= Len(order)
  /\ \A i \in DOMAIN done : done[i].ev = order[i]
  /\ Finished(k) => Len(done) = Len(order)

\* C6, as stated: each of the four examples requests and writes its logits,
\* then streams its completion to the end, then requests and writes its
\* features, then writes response and metadata; each produces all of these.
C6_EveryExampleAllArtifacts ==
  \A k \in 1..4 : Follows(k, StreamingOrder)

\* C6, amended: examples 1 to 3 do so; example 4 requests and writes its logits,
\* then inspects the features, then writes response and metadata, and neither
\* streams a completion nor writes a features artifact.
C6_ExamplesInOrder ==
  /\ \A k \in 1..3 : Follows(k, StreamingOrder)
  /\ Follows(4, InspectionOrder)

\* the run is complete and the streams yielded something
C6_Witness ==
  /\ pc = "done"
  /\ budget = 0
  /\ \A k \in 1..4 : Has(k, "metadata_file")
  /\ \A k \in 1..3 : Has(k, "features_file")
  /\ ~Has(4, "features_file")

\* C7: when the stream of example k has ended, the response accumulated by
\* main, the response passed to save_response and the text written to the
\* response file are the concatenation of the fragments in arrival order.
C7_ResponseIsConcatenation ==
  ex \in 1..3 =>
    /\ pc \in {"streaming", "features", "save", "saving"} =>
         response = Concat(yielded)
    /\ pc = "saving" /\ sv.pc # "idle" => sv.response = Concat(yielded)
    /\ pc = "saving" /\ sv.pc \in {"open_metadata", "dump_metadata", "return", "returned"} =>
         fs[sv.filepath].content = Concat(yielded)

\* a stream of two different fragments has been saved
C7_Witness ==
  /\ ex \in 1..3 /\ pc = "saving" /\ sv.pc = "returned"
  /\ Len(yielded) = 2 /\ yielded[1] # yielded[2]
  /\ fs[sv.filepath].content = yielded[1] \o yielded[2]

\* C8: after a setup_logging call that returned, whatever the handlers before,
\* the root logger holds exactly two handlers, the file handler and the console
\* handler that call installed, and every record logged since went to that
\* call's log file and to no other.
C8_TwoHandlersOfLastCall ==
  /\ LastSetupOk =>
       /\ Len(handlers) = 2
       /\ handlers[1] = FileHandler(setups[Len(setups)].log_file, Len(setups))
       /\ handlers[2] = StreamHandler(Len(setups))
  /\ \A f \in DOMAIN logFiles : \A n \in DOMAIN logFiles[f] :
       f = setups[logFiles[f][n].epoch].log_file

\* handlers were installed before the first call, the second call opened
\* another log file, and a record was logged after each
C8_Witness ==
  /\ Len(setups) = 2 /\ setups[1].ok /\ setups[2].ok
  /\ setups[1].before = 2
  /\ setups[1].log_file # setups[2].log_file
  /\ logFiles[setups[1].log_file] # <<>>
  /\ logFiles[setups[2].log_file] # <<>>

\* C9: with the API key unset or empty the process gets no further than the
\* module-level check: setup_logging is never called, no directory, log file or
\* artifact is created, nothing is logged, no client is constructed and no
\* request is made.
C9_MissingKeyAbortsFirst ==
  (apiKey = Unset \/ apiKey.value = "") =>
    /\ pc \in {"import", "config_abort"}
    /\ pc = "config_abort" => raised # NoExc
    /\ setups = <<>> /\ handlers = <<>>
    /\ dirs = {} /\ logFiles = EmptyFn /\ fs = EmptyFn
    /\ console = <<>>
    /\ ~client /\ trace = <<>> /\ calls = <<>>

\* the key is set but empty, and the process has aborted
C9_Witness ==
  /\ apiKey = EnvVal("")
  /\ pc = "config_abort"

\* C10: the paths main opens for writing are pairwise distinct, also when
\* every timestamp of the run is the same.
C10_RunPathsDistinct ==
  LET opened == {n \in DOMAIN trace : trace[n].path # ""}
  IN  Cardinality({trace[n].path : n \in opened}) = Cardinality(opened)

\* a complete run whose eleven timestamps are all equal
C10_Witness ==
  /\ pc = "done"
  /\ \A i, j \in DOMAIN calls : calls[i].ts = calls[j].ts
  /\ Cardinality(DOMAIN fs) = 15

====
